---- MODULE Spec2Model ----
(***************************************************************************)
(* PomodorUP: the PomodoroTimer class of src/test.py as a state machine.   *)
(* Time is counted in whole seconds; a timedelta is a number of seconds    *)
(* and a datetime is the number of seconds since the process's epoch.      *)
(* The clock is non-decreasing: two reads may return the same instant.     *)
(***************************************************************************)
EXTENDS Integers, Sequences, FiniteSets, Bags, TLC

\* ------------------------------------------------------------------ bounds

\* how many times the clock moves in one behaviour
MaxAdvances == 2
\* how many update_icon threads can be alive side by side
MaxTicks == 2
\* how many operations the control context runs in the field-by-field runs
MaxOps == 3
\* how many update_icon threads can be alive in the field-by-field runs
MaxRaceTicks == 1

\* the steps the clock can take, in seconds
ClockSteps == {5, 300, 600}
\* the steps the clock can take in the field-by-field runs
RaceClockSteps == {5}
\* the minutes handed to set_target_minutes by the menu in the timer runs
TimerTargets == {12}
\* the minutes handed to set_target_minutes in the target runs
TargetInputs == {-3, 0, 12, 25, 45, 99, 240}
\* the recent_targets_minutes a durable file can hold in the target runs
DocRecents ==
  {<<>>, <<30>>, <<25, 30>>, <<30, 30>>, <<100, 99, 25>>,
   <<45, 25, 12, 30, 60, 90>>}
\* the target_minutes a durable file can hold in the target runs
DocTargets == {0, 25, 120}
\* the modes handed to set_text_display_mode in the timer runs
TimerModes == {"none", "bogus"}

\* ------------------------------------------------------- program constants

None == -1
SecondsPerMinute == 60
SecondsPerHour == 3600
MinTargetMinutes == 1
MaxTargetMinutes == 99
DefaultTargetMinutes == 30
max_recent_targets == 5
BandCount == 6
valid_modes ==
  {"none", "minutes_elapsed", "minutes_from_target", "minutes_to_target",
   "minutes_past_target"}

\* ------------------------------------------------------------------- state

VARIABLES
  now,                               \* the clock source, datetime.now()
  alive,                             \* the process has not quit
  start_time, is_running, is_paused, paused_elapsed,
  sessions, session_counter, current_session_start,
  current_session_target_minutes,
  target_duration, recent_targets_minutes,
  text_display_mode, input_buffer,
  icon,                              \* the image last handed to the tray
  disk,                              \* the durable pomodorup.json
  disk_faulty,                       \* writes to the volume can fail
  ticks,                             \* the update_icon threads
  advances,                          \* how often the clock has moved
  last_op,                           \* history: the last operation invoked
  running_total,                     \* history: seconds spent running since reset
  opened_target,                     \* history: target when the session opened
  last_from,                         \* history: the run mode last_op was issued in
  ctl,                               \* the control context: where it is in an operation
  op_begun, op_done,                 \* history: operations begun and completed
  last_snap,                         \* history: the fields before and after the last operation
  tick_crashed,                      \* history: a tick thread died of an exception
  saver,                             \* the control context inside _save_state
  tmp_file                           \* the temporary file pomodorup.json.tmp

timerVars == <<start_time, is_running, is_paused, paused_elapsed>>
sessionVars ==
  <<sessions, session_counter, current_session_start,
    current_session_target_minutes>>
targetVars == <<target_duration, recent_targets_minutes>>
uiVars == <<text_display_mode, input_buffer>>
historyVars == <<last_op, last_from, running_total, opened_target>>
raceVars == <<ctl, op_begun, op_done, last_snap, tick_crashed>>
saveVars == <<saver, tmp_file>>
vars ==
  <<now, alive, timerVars, sessionVars, targetVars, uiVars, icon, disk,
    disk_faulty, ticks, advances, historyVars, raceVars, saveVars>>

\* ----------------------------------------------------------------- helpers

Max(a, b) == IF a >= b THEN a ELSE b
Min(a, b) == IF a <= b THEN a ELSE b
Abs(a) == IF a < 0 THEN -a ELSE a

\* timedelta(minutes=m) in seconds
timedelta_minutes(m) == m * SecondsPerMinute

\* int(td.total_seconds() // 60)
total_minutes(td) == td \div SecondsPerMinute

\* max(1, min(99, int(minutes)))
clamp_minutes(m) == Max(MinTargetMinutes, Min(MaxTargetMinutes, m))

\* f"{n}" for n >= 0: the decimal digits, most significant first
RECURSIVE Str(_)
Str(n) == IF n < 10 THEN <<n>> ELSE Append(Str(n \div 10), n % 10)

\* list.remove(x): drops the first occurrence only
RECURSIVE list_remove(_, _)
list_remove(s, x) ==
  IF s = <<>> THEN <<>>
  ELSE IF Head(s) = x THEN Tail(s)
  ELSE <<Head(s)>> \o list_remove(Tail(s), x)

\* s[:n]
list_take(s, n) == SubSeq(s, 1, Min(n, Len(s)))

list_contains(s, x) == \E i \in 1..Len(s) : s[i] = x

\* ------------------------------------------------------ elapsed and format

get_elapsed_time_since_session_start ==
  IF start_time # None /\ is_running
  THEN now - current_session_start
  ELSE paused_elapsed
get_elapsed_time ==
  IF start_time # None /\ is_running
  THEN (now - start_time) + paused_elapsed
  ELSE paused_elapsed

\* the fields of "HH:MM:SS"
format_timedelta_hms(td) ==
  <<td \div SecondsPerHour, (td % SecondsPerHour) \div SecondsPerMinute,
    td % SecondsPerMinute>>

\* -------------------------------------------------------------- rendering

\* "#RRGGBBAA" as its eight hexadecimal digits, bottom band first
band_colors_hex ==
  << <<5, 14, 4, 6, 13, 2, 15, 15>>,
     <<8, 1, 3, 0, 12, 2, 15, 15>>,
     <<10, 5, 2, 6, 8, 12, 15, 15>>,
     <<15, 2, 2, 6, 5, 9, 15, 15>>,
     <<15, 15, 6, 6, 3, 15, 15, 15>>,
     <<15, 2, 12, 12, 3, 15, 15, 15>> >>

hex_to_rgba_tuple(h) ==
  <<h[1] * 16 + h[2], h[3] * 16 + h[4], h[5] * 16 + h[6], h[7] * 16 + h[8]>>

base_colors == [i \in 1..BandCount |-> hex_to_rgba_tuple(band_colors_hex[i])]

grey_color == <<128, 128, 128, 255>>
white == <<255, 255, 255, 255>>
soft_white == <<250, 250, 250, 200>>
clear_grey == <<33, 37, 43, 0>>
reset_color == <<33, 37, 43, 200>>
red_color == <<242, 38, 89, 255>>

\* opacity is kept in quarters (4 = 1.0); int(max(0, min(255, round(a * 255))))
\* with Python's round-half-to-even
alpha_of(q) ==
  LET x == q * 255
      lo == x \div 4
      r == x % 4
  IN IF r * 2 > 4 THEN lo + 1
     ELSE IF r * 2 < 4 THEN lo
     ELSE IF lo % 2 = 0 THEN lo ELSE lo + 1

\* lines 88-135: the six bands of create_icon before dimming, bottom first,
\* as (colour, opacity in quarters); band i of the code is band i + 1 here
band_fill_strict(elapsed, target, running) ==
  LET elapsed_s == Max(0, elapsed)
      total_target_s == Max(1, IF target = 0 THEN 1 ELSE target)
      \* part_s = total_target_s / 6.0; times are compared multiplied by 6
      steps == (elapsed_s * BandCount) \div total_target_s
      post_target_steps == steps - BandCount
      loop_index == post_target_steps \div BandCount
      pos_in_loop == post_target_steps % BandCount
      current_target_color == base_colors[(loop_index % BandCount) + 1]
      previous_color_for_band(i) ==
        IF loop_index = 0 THEN base_colors[i + 1]
        ELSE base_colors[((loop_index - 1) % BandCount) + 1]
      band(i) ==
        IF steps <= 5
        THEN IF elapsed_s * BandCount <= i * total_target_s
             THEN IF running THEN <<grey_color, 0>> ELSE <<grey_color, 4>>
             ELSE <<base_colors[i + 1], 4>>
        ELSE IF i <= pos_in_loop THEN <<current_target_color, 4>>
             ELSE <<previous_color_for_band(i), 4>>
  IN [k \in 1..BandCount |-> band(k - 1)]
band_fill_keeps_rainbow(elapsed, target, running) ==
  LET elapsed_s == Max(0, elapsed)
      total_target_s == Max(1, IF target = 0 THEN 1 ELSE target)
      \* part_s = total_target_s / 6.0; times are compared multiplied by 6
      steps == (elapsed_s * BandCount) \div total_target_s
      post_target_steps == steps - BandCount
      loop_index == post_target_steps \div BandCount
      pos_in_loop == post_target_steps % BandCount
      current_target_color == base_colors[(loop_index % BandCount) + 1]
      previous_color_for_band(i) ==
        base_colors[i + 1]
      band(i) ==
        IF steps <= 5
        THEN IF elapsed_s * BandCount < i * total_target_s
             THEN IF running THEN <<grey_color, 0>> ELSE <<grey_color, 4>>
             ELSE <<base_colors[i + 1], 4>>
        ELSE IF i <= pos_in_loop THEN <<current_target_color, 4>>
             ELSE <<previous_color_for_band(i), 4>>
  IN [k \in 1..BandCount |-> band(k - 1)]
band_fill(elapsed, target, running) ==
  LET elapsed_s == Max(0, elapsed)
      total_target_s == Max(1, IF target = 0 THEN 1 ELSE target)
      \* part_s = total_target_s / 6.0; times are compared multiplied by 6
      steps == (elapsed_s * BandCount) \div total_target_s
      post_target_steps == steps - BandCount
      loop_index == post_target_steps \div BandCount
      pos_in_loop == post_target_steps % BandCount
      current_target_color == base_colors[(loop_index % BandCount) + 1]
      previous_color_for_band(i) ==
        IF loop_index = 0 THEN base_colors[i + 1]
        ELSE base_colors[((loop_index - 1) % BandCount) + 1]
      band(i) ==
        IF steps <= 5
        THEN IF elapsed_s * BandCount < i * total_target_s
             THEN IF running THEN <<grey_color, 0>> ELSE <<grey_color, 4>>
             ELSE <<base_colors[i + 1], 4>>
        ELSE IF i <= pos_in_loop THEN <<current_target_color, 4>>
             ELSE <<previous_color_for_band(i), 4>>
  IN [k \in 1..BandCount |-> band(k - 1)]

\* lines 137-155: halve the opacity when not running, then the drawn alpha
band_dim(bands, running) ==
  [k \in 1..BandCount |->
     LET b == bands[k]
         q == IF running THEN b[2] ELSE b[2] \div 2
     IN <<b[1][1], b[1][2], b[1][3], alpha_of(q)>>]

band_list(elapsed, target, running) ==
  band_dim(band_fill(elapsed, target, running), running)

\* create_icon(text, text_color): what the image shows. The elapsed time, the
\* target and the running flag are the ones create_icon reads when it is called.
create_icon(text, text_color, elapsed, target, running) ==
  [text |-> text, color |-> text_color,
   bands |-> band_list(elapsed, target, running)]

\* _compute_text_and_color(elapsed) under a display mode and a target
text_and_color(mode, elapsed, target) ==
  LET elapsed_minutes == Max(0, elapsed) \div SecondsPerMinute
      target_minutes == total_minutes(target)
      delta == elapsed_minutes - target_minutes
  IN CASE mode = "none" -> <<<<>>, white>>
       [] mode = "minutes_elapsed" -> <<Str(elapsed_minutes), white>>
       [] mode = "minutes_from_target" ->
            IF delta < 0 THEN <<Str(Abs(delta)), soft_white>>
            ELSE IF delta = 0 THEN <<<<>>, soft_white>>
            ELSE <<Str(Abs(delta)), clear_grey>>
       [] mode = "minutes_to_target" ->
            IF delta >= 0 THEN <<<<>>, soft_white>>
            ELSE <<Str(Abs(-delta)), white>>
       [] mode = "minutes_past_target" ->
            IF delta <= 0 THEN <<<<>>, white>>
            ELSE <<Str(delta), clear_grey>>
       [] OTHER -> <<Str(elapsed_minutes), soft_white>>

\* the icon a caller builds from _compute_text_and_color and create_icon
rendered_icon(mode, elapsed, target, running) ==
  LET tc == text_and_color(mode, elapsed, target)
  IN create_icon(tc[1], tc[2], elapsed, target, running)

\* ------------------------------------------------------------- persistence

\* The durable file: missing, not a JSON object, or an object whose fields
\* each pass or fail the isinstance checks of _load_state.
default_sessions == <<>>
default_recent == <<DefaultTargetMinutes>>
default_mode == "minutes_elapsed"

missing_doc ==
  [kind |-> "missing",
   sessions |-> [ok |-> FALSE, v |-> <<>>],
   recent |-> [ok |-> FALSE, v |-> <<>>],
   target |-> [ok |-> FALSE, v |-> 0],
   mode |-> [ok |-> FALSE, v |-> ""]]

malformed_doc == [missing_doc EXCEPT !.kind = "malformed"]

\* a JSON object with a list of integers and an integer, and no sessions
object_doc(recent, target) ==
  [kind |-> "object",
   sessions |-> [ok |-> TRUE, v |-> <<>>],
   recent |-> [ok |-> TRUE, v |-> recent],
   target |-> [ok |-> TRUE, v |-> target],
   mode |-> [ok |-> FALSE, v |-> ""]]

\* an object whose recent_targets_minutes is not a list of integers
untyped_doc(target) ==
  [object_doc(<<>>, target) EXCEPT !.recent = [ok |-> FALSE, v |-> <<>>]]

\* the payload of _save_state
save_payload(sess, recent, target, mode) ==
  [kind |-> "object",
   sessions |-> [ok |-> TRUE, v |-> sess],
   recent |-> [ok |-> TRUE, v |-> recent],
   target |-> [ok |-> TRUE, v |-> total_minutes(target)],
   mode |-> [ok |-> TRUE, v |-> mode]]

\* _save_state: the temporary file replaces the durable one, or the write
\* fails and the durable file stays as it was
save_state(written, old, sess, recent, target, mode) ==
  IF written THEN save_payload(sess, recent, target, mode) ELSE old

\* whether os.replace is reached: always on a sound volume
write_outcomes == IF disk_faulty THEN BOOLEAN ELSE {TRUE}

doc_readable(d) == d.kind = "object"

load_sessions(d) ==
  IF doc_readable(d) /\ d.sessions.ok THEN d.sessions.v ELSE default_sessions

load_recent(d) ==
  IF doc_readable(d) /\ d.recent.ok
  THEN list_take([i \in 1..Len(d.recent.v) |-> clamp_minutes(d.recent.v[i])],
                 max_recent_targets)
  ELSE default_recent

load_target(d) ==
  IF doc_readable(d) /\ d.target.ok
  THEN timedelta_minutes(clamp_minutes(d.target.v))
  ELSE timedelta_minutes(DefaultTargetMinutes)

load_mode(d) ==
  IF doc_readable(d) /\ d.mode.ok /\ d.mode.v \in valid_modes
  THEN d.mode.v
  ELSE default_mode

RECURSIVE max_id(_)
max_id(sess) ==
  IF Len(sess) = 1 THEN Head(sess).id
  ELSE Max(Head(sess).id, max_id(Tail(sess)))

load_counter_restarts(d) == 0
load_counter(d) ==
  LET sess == load_sessions(d)
  IN IF sess # <<>> THEN max_id(sess) ELSE 0

\* ------------------------------------------------------------ tick threads

\* The live update_icon threads, as a bag of thread states: threads in the
\* same state are interchangeable.
no_threads == EmptyBag
no_image == [text |-> <<>>, color |-> <<>>, bands |-> <<>>]
\* a thread about to test the loop condition, its locals unset
sleeping ==
  [pc |-> "sleep", ret |-> "", t |-> None, st |-> None, elapsed |-> 0,
   bands_elapsed |-> 0, tc |-> <<>>, fill |-> <<>>, image |-> no_image,
   b0 |-> 0, b1 |-> 0]
live_ticks == BagCardinality(ticks)

\* threading.Thread(target=self.update_icon, daemon=True).start()
spawn_tick == ticks (+) SetToBag({sleeping})

\* thread t moves on to state u, or ends
tick_moves(t, u) == (ticks (-) SetToBag({t})) (+) SetToBag({u})
tick_ends(t) == ticks (-) SetToBag({t})

\* -------------------------------------------------------------- operations

\* The menu (create_menu) is a function of the fields below and holds no
\* state of its own, so _rebuild_menu leaves the state as it is.

\* line 213: if not self.is_running
may_start_always == TRUE
may_start == ~is_running

\* line 230: if self.is_running
may_pause == is_running

\* line 215: a fresh start, not a resume
fresh_start ==
  ~is_paused /\ paused_elapsed = 0 /\ current_session_start = None

\* line 232: self.paused_elapsed += datetime.now() - self.start_time
banked_open_interval_only(pe, t, st) == t - st
banked(pe, t, st) == pe + (t - st)

\* lines 246 and 268: is there a session to finalize
should_finalize(elapsed) == current_session_start # None /\ elapsed > 0

\* lines 278-285: the record of the open session
session_record_current_target(end_dt, elapsed_td) ==
  [id |-> session_counter,
   start |-> current_session_start,
   end |-> end_dt,
   target_minutes |-> total_minutes(target_duration),
   elapsed_hms |-> format_timedelta_hms(elapsed_td)]
session_record(end_dt, elapsed_td) ==
  [id |-> session_counter,
   start |-> current_session_start,
   end |-> end_dt,
   target_minutes |->
     IF current_session_target_minutes # None
     THEN current_session_target_minutes
     ELSE total_minutes(target_duration),
   elapsed_hms |-> format_timedelta_hms(elapsed_td)]

\* line 286: self.sessions.append(record)
log_prepend(log, record) == <<record>> \o log
log_append(log, record) == Append(log, record)

\* lines 250-253: reset all timing state
clear_timing_keeps_paused ==
  /\ is_running' = FALSE
  /\ is_paused' = is_paused
  /\ start_time' = None
  /\ paused_elapsed' = 0
clear_timing ==
  /\ is_running' = FALSE
  /\ is_paused' = FALSE
  /\ start_time' = None
  /\ paused_elapsed' = 0

\* lines 486-489: the most-recently-used list after choosing `minutes`
mru_insert(recent, minutes) ==
  LET without ==
        IF list_contains(recent, minutes) THEN list_remove(recent, minutes)
        ELSE recent
  IN list_take(<<minutes>> \o without, max_recent_targets)

start_timer ==
  IF may_start
  THEN /\ session_counter' =
            IF fresh_start THEN session_counter + 1 ELSE session_counter
       /\ current_session_start' =
            IF fresh_start THEN now ELSE current_session_start
       /\ current_session_target_minutes' =
            IF fresh_start THEN total_minutes(target_duration)
            ELSE current_session_target_minutes
       /\ start_time' = now
       /\ is_running' = TRUE
       /\ is_paused' = FALSE
       /\ ticks' = spawn_tick
       /\ UNCHANGED <<now, alive, paused_elapsed, sessions, targetVars, uiVars,
                      icon, disk>>
  ELSE UNCHANGED <<now, alive, timerVars, sessionVars, targetVars, uiVars,
                   icon, disk, ticks>>

pause_timer_keeps_start_time ==
  IF may_pause
  THEN /\ paused_elapsed' = banked(paused_elapsed, now, start_time)
       /\ is_running' = FALSE
       /\ is_paused' = TRUE
       /\ start_time' = start_time
       /\ icon' = rendered_icon(text_display_mode, paused_elapsed',
                                target_duration, FALSE)
       /\ UNCHANGED <<now, alive, sessionVars, targetVars, uiVars, disk, ticks>>
  ELSE UNCHANGED <<now, alive, timerVars, sessionVars, targetVars, uiVars,
                   icon, disk, ticks>>
pause_timer ==
  IF may_pause
  THEN /\ paused_elapsed' = banked(paused_elapsed, now, start_time)
       /\ is_running' = FALSE
       /\ is_paused' = TRUE
       /\ start_time' = None
       /\ icon' = rendered_icon(text_display_mode, paused_elapsed',
                                target_duration, FALSE)
       /\ UNCHANGED <<now, alive, sessionVars, targetVars, uiVars, disk, ticks>>
  ELSE UNCHANGED <<now, alive, timerVars, sessionVars, targetVars, uiVars,
                   icon, disk, ticks>>

\* _append_session_record when there is a session to finalize, else nothing
finalize_session(elapsed) ==
  IF should_finalize(elapsed)
  THEN /\ sessions' = log_append(sessions, session_record(now, elapsed))
       /\ current_session_start' = None
       /\ current_session_target_minutes' = None
  ELSE UNCHANGED <<sessions, current_session_start,
                   current_session_target_minutes>>

\* reset_timer without its calls of _save_state
reset_memory ==
  /\ finalize_session(get_elapsed_time)
  /\ clear_timing
  /\ icon' = create_icon(Str(total_minutes(target_duration)), reset_color,
                         0, target_duration, FALSE)
  /\ UNCHANGED <<now, alive, session_counter, targetVars, uiVars, ticks>>

reset_timer ==
  /\ reset_memory
  /\ \E written \in write_outcomes :
       disk' = save_state(written, disk, sessions', recent_targets_minutes,
                          target_duration, text_display_mode)

\* lines 267-269: quit_app up to its own call of _save_state
quit_memory ==
  /\ finalize_session(get_elapsed_time)
  /\ paused_elapsed' =
       IF should_finalize(get_elapsed_time) THEN 0 ELSE paused_elapsed
  /\ UNCHANGED <<now, start_time, is_paused, session_counter, targetVars,
                 uiVars, icon>>

\* lines 272-274: the process ends, and its daemon threads with it
quit_exit ==
  /\ is_running' = FALSE
  /\ alive' = FALSE
  /\ ticks' = no_threads

quit_app ==
  /\ quit_memory
  /\ \E written \in write_outcomes :
       disk' = save_state(written, disk, sessions', recent_targets_minutes,
                          target_duration, text_display_mode)
  /\ quit_exit

\* what set_target_minutes leaves alone
set_target_retargets_session ==
  /\ current_session_target_minutes' =
       IF current_session_start # None THEN total_minutes(target_duration')
       ELSE current_session_target_minutes
  /\ UNCHANGED <<now, alive, timerVars, sessions, session_counter,
                 current_session_start, uiVars, ticks>>
set_target_untouched ==
  UNCHANGED <<now, alive, timerVars, sessionVars, uiVars, ticks>>

\* lines 483-489: the target and the recent list
set_target_fields(minutes) ==
  LET m == clamp_minutes(minutes)
  IN /\ target_duration' = timedelta_minutes(m)
     /\ recent_targets_minutes' = mru_insert(recent_targets_minutes, m)

\* lines 492-494: the icon shows the new target unless the timer is running
set_target_icon(minutes) ==
  icon' =
    IF ~is_running
    THEN create_icon(Str(clamp_minutes(minutes)), red_color, get_elapsed_time,
                     target_duration', is_running)
    ELSE icon

set_target_minutes(minutes) ==
  /\ set_target_fields(minutes)
  /\ set_target_icon(minutes)
  /\ \E written \in write_outcomes :
       disk' = save_state(written, disk, sessions, recent_targets_minutes',
                          target_duration', text_display_mode)
  /\ set_target_untouched

set_text_display_mode(mode) ==
  IF mode \notin valid_modes
  THEN UNCHANGED <<now, alive, timerVars, sessionVars, targetVars, uiVars,
                   icon, disk, ticks>>
  ELSE /\ text_display_mode' = mode
       /\ \E written \in write_outcomes :
            disk' = save_state(written, disk, sessions, recent_targets_minutes,
                               target_duration, mode)
       /\ icon' = rendered_icon(mode, get_elapsed_time, target_duration,
                                is_running)
       /\ UNCHANGED <<now, alive, timerVars, sessionVars, targetVars,
                      input_buffer, ticks>>

\* lines 435-436: clear_statistics before its call of _save_state
clear_memory ==
  /\ sessions' = <<>>
  /\ session_counter' = 0
  /\ UNCHANGED <<now, alive, timerVars, current_session_start,
                 current_session_target_minutes, targetVars, uiVars, icon,
                 ticks>>

clear_statistics ==
  /\ clear_memory
  /\ \E written \in write_outcomes :
       disk' = save_state(written, disk, sessions', recent_targets_minutes,
                          target_duration, text_display_mode)

\* one pass of the loop of update_icon by a sleeping thread, taken as one step
update_icon ==
  /\ BagIn(sleeping, ticks)
  /\ IF is_running
     THEN /\ icon' =
               IF start_time # None
               THEN rendered_icon(text_display_mode, get_elapsed_time,
                                  target_duration, is_running)
               ELSE icon
          /\ UNCHANGED ticks
     ELSE /\ ticks' = tick_ends(sleeping)
          /\ UNCHANGED icon
  /\ UNCHANGED <<now, alive, timerVars, sessionVars, targetVars, uiVars, disk>>

\* the control context outside _save_state. `left` counts the calls of
\* _save_state the running operation still makes, `after` is what the operation
\* does once they returned, `wrote` whether the last call reached os.replace
\* and `closed` whether the operation finalized a session.
saver_idle ==
  [pc |-> "idle", left |-> 0, after |-> "return", wrote |-> FALSE,
   closed |-> FALSE]

\* the control context between operations
ctl_idle == [pc |-> "idle", pe |-> 0, t |-> 0, st |-> None]
no_snap == [n |-> 0, kind |-> "none", pre |-> <<0, None>>, post |-> <<0, None>>]

\* ------------------------------------------------------------------- runs

RunMode ==
  IF is_running THEN "Running" ELSE IF is_paused THEN "Paused" ELSE "Idle"

\* __init__ followed by _load_state of the durable file d
Construct(d) ==
  /\ disk = d
  /\ alive = TRUE
  /\ start_time = None
  /\ is_running = FALSE
  /\ is_paused = FALSE
  /\ paused_elapsed = 0
  /\ sessions = load_sessions(d)
  /\ session_counter = load_counter(d)
  /\ current_session_start = None
  /\ current_session_target_minutes = None
  /\ target_duration = load_target(d)
  /\ recent_targets_minutes = load_recent(d)
  /\ text_display_mode = load_mode(d)
  /\ input_buffer = <<>>
  /\ icon = create_icon(Str(total_minutes(load_target(d))), red_color, 0,
                        load_target(d), FALSE)
  /\ ticks = no_threads

History0 ==
  /\ now = 0
  /\ advances = 0
  /\ last_op = "none"
  /\ last_from = "Idle"
  /\ running_total = 0
  /\ opened_target = None
  /\ ctl = ctl_idle
  /\ op_begun = 0
  /\ op_done = 0
  /\ last_snap = no_snap
  /\ tick_crashed = FALSE
  /\ saver = saver_idle
  /\ tmp_file = missing_doc

\* the control context runs operation op
Invoked(op) ==
  /\ last_op' = op
  /\ last_from' = RunMode
  /\ UNCHANGED <<advances, disk_faulty, raceVars, saveVars>>

\* a step of the clock or of a tick thread: no operation was just invoked
Elsewhere ==
  /\ last_op' = "none"
  /\ last_from' = "Idle"

Start ==
  /\ alive
  /\ is_running \/ live_ticks < MaxTicks
  /\ start_timer
  /\ Invoked("start")
  /\ opened_target' =
       IF current_session_start = None /\ current_session_start' # None
       THEN total_minutes(target_duration)
       ELSE opened_target
  /\ UNCHANGED running_total

Pause ==
  /\ alive
  /\ pause_timer
  /\ Invoked("pause")
  /\ UNCHANGED <<running_total, opened_target>>

Reset ==
  /\ alive
  /\ reset_timer
  /\ Invoked("reset")
  /\ running_total' = 0
  /\ opened_target' = IF current_session_start' = None THEN None ELSE opened_target

Quit ==
  /\ alive
  /\ quit_app
  /\ Invoked("quit")
  /\ opened_target' = IF current_session_start' = None THEN None ELSE opened_target
  /\ UNCHANGED running_total

SetTarget(m) ==
  /\ alive
  /\ set_target_minutes(m)
  /\ Invoked("set_target")
  /\ UNCHANGED <<running_total, opened_target>>

SetTextDisplayMode(mode) ==
  /\ alive
  /\ set_text_display_mode(mode)
  /\ Invoked("set_mode")
  /\ UNCHANGED <<running_total, opened_target>>

ClearStatistics ==
  /\ alive
  /\ clear_statistics
  /\ Invoked("clear")
  /\ UNCHANGED <<running_total, opened_target>>

Tick ==
  /\ alive
  /\ update_icon
  /\ Elsewhere
  /\ UNCHANGED <<advances, disk_faulty, running_total, opened_target, raceVars,
                 saveVars>>

\* the clock source moves on by d seconds
AdvanceClock(d) ==
  /\ alive
  /\ advances < MaxAdvances
  /\ now' = now + d
  /\ advances' = advances + 1
  /\ running_total' = IF is_running THEN running_total + d ELSE running_total
  /\ Elsewhere
  /\ UNCHANGED <<alive, timerVars, sessionVars, targetVars, uiVars, icon, disk,
                 disk_faulty, ticks, opened_target, raceVars, saveVars>>

Init == Construct(missing_doc) /\ History0 /\ disk_faulty = FALSE

Next ==
  \/ Start
  \/ Pause
  \/ Reset
  \/ Quit
  \/ \E m \in TimerTargets : SetTarget(m)
  \/ ClearStatistics
  \/ Tick
  \/ \E d \in ClockSteps : AdvanceClock(d)

Spec == Init /\ [][Next]_vars

\* ------------------------------------------------- field-by-field steps

\* The two contexts share the fields without a lock: below, pause_timer in the
\* control context and update_icon in a tick thread take one field access per
\* step. Only the control context writes the timer fields, so its own reads of
\* them on line 232 are taken together.

otherVars ==
  <<now, alive, sessionVars, targetVars, uiVars, disk, disk_faulty, advances,
    running_total, opened_target, saveVars>>

\* line 230: pause_timer is called and tests self.is_running
PauseCall ==
  /\ alive
  /\ ctl.pc = "idle"
  /\ op_begun < MaxOps
  /\ op_begun' = op_begun + 1
  /\ last_op' = "pause"
  /\ last_from' = RunMode
  /\ IF may_pause
     THEN /\ ctl' = [ctl EXCEPT !.pc = "p_read"]
          /\ last_snap' = [n |-> op_begun + 1, kind |-> "pause",
                           pre |-> <<paused_elapsed, start_time>>,
                           post |-> <<paused_elapsed, start_time>>]
          /\ UNCHANGED op_done
     ELSE /\ op_done' = op_done + 1
          /\ last_snap' = [n |-> op_begun + 1, kind |-> "ignored",
                           pre |-> <<paused_elapsed, start_time>>,
                           post |-> <<paused_elapsed, start_time>>]
          /\ UNCHANGED ctl
  /\ UNCHANGED <<timerVars, icon, ticks, tick_crashed, otherVars>>

\* line 232, right-hand side: self.paused_elapsed, datetime.now(), self.start_time
PauseRead ==
  /\ ctl.pc = "p_read"
  /\ ctl' = [pc |-> "p_bank", pe |-> paused_elapsed, t |-> now,
             st |-> start_time]
  /\ UNCHANGED <<timerVars, icon, ticks, otherVars, last_op, last_from,
                 op_begun, op_done, last_snap, tick_crashed>>

\* line 232, the store to self.paused_elapsed
PauseBank ==
  /\ ctl.pc = "p_bank"
  /\ paused_elapsed' = banked(ctl.pe, ctl.t, ctl.st)
  /\ ctl' = [ctl EXCEPT !.pc = "p_stop"]
  /\ UNCHANGED <<start_time, is_running, is_paused, icon, ticks, otherVars,
                 last_op, last_from, op_begun, op_done, last_snap,
                 tick_crashed>>

\* line 233: self.is_running = False
PauseStop ==
  /\ ctl.pc = "p_stop"
  /\ is_running' = FALSE
  /\ ctl' = [ctl EXCEPT !.pc = "p_flag"]
  /\ UNCHANGED <<start_time, is_paused, paused_elapsed, icon, ticks, otherVars,
                 last_op, last_from, op_begun, op_done, last_snap,
                 tick_crashed>>

\* line 234: self.is_paused = True
PauseFlag ==
  /\ ctl.pc = "p_flag"
  /\ is_paused' = TRUE
  /\ ctl' = [ctl EXCEPT !.pc = "p_clear"]
  /\ UNCHANGED <<start_time, is_running, paused_elapsed, icon, ticks, otherVars,
                 last_op, last_from, op_begun, op_done, last_snap,
                 tick_crashed>>

\* line 235: self.start_time = None
PauseClear ==
  /\ ctl.pc = "p_clear"
  /\ start_time' = None
  /\ ctl' = [ctl EXCEPT !.pc = "p_icon"]
  /\ UNCHANGED <<is_running, is_paused, paused_elapsed, icon, ticks, otherVars,
                 last_op, last_from, op_begun, op_done, last_snap,
                 tick_crashed>>

\* lines 237-241: the paused icon is handed to the tray and pause_timer returns
PauseIcon ==
  /\ ctl.pc = "p_icon"
  /\ icon' = rendered_icon(text_display_mode, get_elapsed_time,
                           target_duration, is_running)
  /\ ctl' = ctl_idle
  /\ op_done' = op_done + 1
  /\ last_snap' = [last_snap EXCEPT !.post = <<paused_elapsed, start_time>>]
  /\ UNCHANGED <<timerVars, ticks, otherVars, last_op, last_from, op_begun,
                 tick_crashed>>

\* start_timer, taken whole, between two operations of the control context
RaceStart ==
  /\ alive
  /\ ctl.pc = "idle"
  /\ op_begun < MaxOps
  /\ is_running \/ live_ticks < MaxRaceTicks
  /\ start_timer
  /\ last_op' = "start"
  /\ last_from' = RunMode
  /\ op_begun' = op_begun + 1
  /\ op_done' = op_done + 1
  /\ last_snap' = [n |-> op_begun + 1, kind |-> "start",
                   pre |-> <<paused_elapsed, start_time>>,
                   post |-> <<paused_elapsed', start_time'>>]
  /\ opened_target' =
       IF current_session_start = None /\ current_session_start' # None
       THEN total_minutes(target_duration)
       ELSE opened_target
  /\ UNCHANGED <<disk_faulty, advances, running_total, ctl, tick_crashed,
                 saveVars>>

\* a step of a tick thread touches its own locals, and the icon when told so
tick_frame ==
  UNCHANGED <<timerVars, otherVars, last_op, last_from, ctl, op_begun,
              op_done, last_snap>>

\* line 203: while self.is_running
TickWhile ==
  \E tk \in BagToSet(ticks) :
    /\ tk.pc = "sleep"
    /\ ticks' = IF is_running THEN tick_moves(tk, [tk EXCEPT !.pc = "if"])
                ELSE tick_ends(tk)
    /\ UNCHANGED <<icon, tick_crashed>>
    /\ tick_frame

\* line 204: if self.start_time, then the call of get_elapsed_time on line 205
TickIf ==
  \E tk \in BagToSet(ticks) :
    /\ tk.pc = "if"
    /\ ticks' =
         IF start_time # None
         THEN tick_moves(tk, [tk EXCEPT !.pc = "g_st", !.ret = "text",
                                        !.t = None, !.st = None,
                                        !.b0 = op_done])
         ELSE tick_moves(tk, sleeping)
    /\ UNCHANGED <<icon, tick_crashed>>
    /\ tick_frame

\* line 187, first operand: self.start_time
GetStart ==
  \E tk \in BagToSet(ticks) :
    /\ tk.pc = "g_st"
    /\ ticks' = tick_moves(tk, [tk EXCEPT !.pc = IF start_time # None
                                                 THEN "g_run" ELSE "g_ret"])
    /\ UNCHANGED <<icon, tick_crashed>>
    /\ tick_frame

\* line 187, second operand: self.is_running
GetRunning ==
  \E tk \in BagToSet(ticks) :
    /\ tk.pc = "g_run"
    /\ ticks' = tick_moves(tk, [tk EXCEPT !.pc = IF is_running
                                                 THEN "g_now" ELSE "g_ret"])
    /\ UNCHANGED <<icon, tick_crashed>>
    /\ tick_frame

\* line 188: datetime.now()
GetNow ==
  \E tk \in BagToSet(ticks) :
    /\ tk.pc = "g_now"
    /\ ticks' = tick_moves(tk, [tk EXCEPT !.pc = "g_st2", !.t = now])
    /\ UNCHANGED <<icon, tick_crashed>>
    /\ tick_frame

\* line 188: self.start_time; datetime - None raises TypeError, which ends
\* the thread
GetStartAgain ==
  \E tk \in BagToSet(ticks) :
    /\ tk.pc = "g_st2"
    /\ IF start_time = None
       THEN /\ ticks' = tick_ends(tk)
            /\ tick_crashed' = TRUE
       ELSE /\ ticks' = tick_moves(tk, [tk EXCEPT !.pc = "g_pe",
                                                  !.st = start_time])
            /\ UNCHANGED tick_crashed
    /\ UNCHANGED icon
    /\ tick_frame

\* get_elapsed_time returns v to line 205 or to line 77
tick_returns(tk, v) ==
  IF tk.ret = "text"
  THEN [tk EXCEPT !.pc = "text", !.elapsed = v, !.b1 = op_begun]
  ELSE [tk EXCEPT !.pc = "bands", !.bands_elapsed = v]

\* line 188: self.paused_elapsed and the sum
GetBanked ==
  \E tk \in BagToSet(ticks) :
    /\ tk.pc = "g_pe"
    /\ ticks' = tick_moves(tk, tick_returns(tk, (tk.t - tk.st) + paused_elapsed))
    /\ UNCHANGED <<icon, tick_crashed>>
    /\ tick_frame

\* line 189: return self.paused_elapsed
GetPaused ==
  \E tk \in BagToSet(ticks) :
    /\ tk.pc = "g_ret"
    /\ ticks' = tick_moves(tk, tick_returns(tk, paused_elapsed))
    /\ UNCHANGED <<icon, tick_crashed>>
    /\ tick_frame

\* line 207: _compute_text_and_color(elapsed), then create_icon is entered and
\* calls get_elapsed_time on line 77
TickText ==
  \E tk \in BagToSet(ticks) :
    /\ tk.pc = "text"
    /\ ticks' = tick_moves(tk,
         [tk EXCEPT !.pc = "g_st", !.ret = "bands", !.t = None, !.st = None,
                    !.tc = text_and_color(text_display_mode, tk.elapsed,
                                          target_duration)])
    /\ UNCHANGED <<icon, tick_crashed>>
    /\ tick_frame

\* lines 78-135: the bands, with self.is_running read for the unfilled ones
TickBands ==
  \E tk \in BagToSet(ticks) :
    /\ tk.pc = "bands"
    /\ ticks' = tick_moves(tk,
         [tk EXCEPT !.pc = "dim",
                    !.fill = band_fill(tk.bands_elapsed, target_duration,
                                       is_running)])
    /\ UNCHANGED <<icon, tick_crashed>>
    /\ tick_frame

\* lines 137-184: self.is_running read again for the dimming; the image is done
TickDim ==
  \E tk \in BagToSet(ticks) :
    /\ tk.pc = "dim"
    /\ ticks' = tick_moves(tk,
         [tk EXCEPT !.pc = "publish",
                    !.image = [text |-> tk.tc[1], color |-> tk.tc[2],
                               bands |-> band_dim(tk.fill, is_running)]])
    /\ UNCHANGED <<icon, tick_crashed>>
    /\ tick_frame

\* lines 209-210: self.icon.icon = new_icon, then time.sleep(1)
TickPublish ==
  \E tk \in BagToSet(ticks) :
    /\ tk.pc = "publish"
    /\ icon' = tk.image
    /\ ticks' = tick_moves(tk, sleeping)
    /\ UNCHANGED tick_crashed
    /\ tick_frame

NextRace ==
  \/ RaceStart
  \/ PauseCall
  \/ PauseRead
  \/ PauseBank
  \/ PauseStop
  \/ PauseFlag
  \/ PauseClear
  \/ PauseIcon
  \/ TickWhile
  \/ TickIf
  \/ GetStart
  \/ GetRunning
  \/ GetNow
  \/ GetStartAgain
  \/ GetBanked
  \/ GetPaused
  \/ TickText
  \/ TickBands
  \/ TickDim
  \/ TickPublish
  \/ \E d \in RaceClockSteps : AdvanceClock(d)

SpecRace == Init /\ [][NextRace]_vars

\* ------------------------------------------------------------ target runs

\* The engine starts from whatever file it finds; the menu then sets targets.
TargetDocs ==
  {missing_doc, malformed_doc}
    \cup {object_doc(r, t) : r \in DocRecents, t \in DocTargets}
    \cup {untyped_doc(t) : t \in DocTargets}

InitTarget ==
  /\ \E d \in TargetDocs : Construct(d)
  /\ History0
  /\ disk_faulty = FALSE

NextTarget ==
  \/ \E m \in TargetInputs : SetTarget(m)
  \/ Start
  \/ Pause

SpecTarget == InitTarget /\ [][NextTarget]_vars

\* ------------------------------------------------------------ durable runs

\* The operations that persist, with _save_state taken one file operation at a
\* time. The process can die between any two steps, and a new process is then
\* started on the file that is left. The tick threads touch neither the
\* document nor the files and are left unscheduled here. Only the control
\* context writes the fields of the document, so the fields an operation
\* writes are taken together; the fields reset_timer writes after its first
\* save are not in the document.

\* the steps the clock can take in the durable runs
DurableClockSteps == {300}
\* the minutes handed to set_target_minutes in the durable runs
DurableTargets == {0}
\* the files the first process can find in the durable runs
DurableDocs == {missing_doc, object_doc(<<30, 30>>, 120)}

\* a temporary file that was opened for writing and not written to its end
partial_file == [missing_doc EXCEPT !.kind = "partial"]

\* lines 348-353: the payload of the fields as they are now
memory_doc_default_mode ==
  save_payload(sessions, recent_targets_minutes, target_duration, default_mode)
memory_doc_in_seconds ==
  [save_payload(sessions, recent_targets_minutes, target_duration,
                text_display_mode) EXCEPT !.target.v = target_duration]
memory_doc ==
  save_payload(sessions, recent_targets_minutes, target_duration,
               text_display_mode)

\* the running operation calls _save_state n times and then does `after`
begin_save_in_background(n, after, closed) ==
  saver' = [pc |-> IF after = "return" THEN "idle" ELSE after, left |-> n,
            after |-> after, wrote |-> FALSE, closed |-> closed]
begin_save(n, after, closed) ==
  saver' = [pc |-> "open", left |-> n, after |-> after, wrote |-> FALSE,
            closed |-> closed]

\* _save_state returns, having reached os.replace or not. A fault of the
\* volume lasts for one operation: it is over when the operation's last save
\* returns.
save_returns(wrote) ==
  /\ saver' = [saver EXCEPT !.wrote = wrote,
                             !.left = saver.left - 1,
                             !.pc = IF saver.left > 1 THEN "open"
                                    ELSE IF saver.after = "return" THEN "idle"
                                    ELSE saver.after]
  /\ disk_faulty' = IF saver.left > 1 THEN disk_faulty ELSE FALSE

\* how many times the operation saves: _append_session_record saves on its
\* own (line 291) before reset_timer and quit_app do (lines 262 and 271)
saves_of_finalize(elapsed) == IF should_finalize(elapsed) THEN 2 ELSE 1

\* which file line 354 opens for writing
open_durable_file(f) == disk' = f /\ UNCHANGED tmp_file
open_tmp_file(f) == tmp_file' = f /\ UNCHANGED disk

durable_history(op) ==
  /\ last_op' = op
  /\ last_from' = RunMode
  /\ UNCHANGED <<disk_faulty, advances, raceVars>>

DurableStart == saver.pc = "idle" /\ Start

DurablePause == saver.pc = "idle" /\ Pause

ResetCall ==
  /\ alive
  /\ saver.pc = "idle"
  /\ reset_memory
  /\ begin_save(saves_of_finalize(get_elapsed_time), "return",
                should_finalize(get_elapsed_time))
  /\ durable_history("reset")
  /\ running_total' = 0
  /\ opened_target' = IF current_session_start' = None THEN None ELSE opened_target
  /\ UNCHANGED <<disk, tmp_file>>

QuitCall ==
  /\ alive
  /\ saver.pc = "idle"
  /\ quit_memory
  /\ begin_save(saves_of_finalize(get_elapsed_time), "exit",
                should_finalize(get_elapsed_time))
  /\ durable_history("quit")
  /\ opened_target' = IF current_session_start' = None THEN None ELSE opened_target
  /\ UNCHANGED <<is_running, alive, ticks, running_total, disk, tmp_file>>

\* lines 272-274, once the saves of quit_app have returned
QuitExit ==
  /\ alive
  /\ saver.pc = "exit"
  /\ quit_exit
  /\ saver' = [saver EXCEPT !.pc = "idle"]
  /\ UNCHANGED <<now, start_time, is_paused, paused_elapsed, sessionVars,
                 targetVars, uiVars, icon, disk, tmp_file, disk_faulty,
                 advances, historyVars, raceVars>>

SetTargetCall(m) ==
  /\ alive
  /\ saver.pc = "idle"
  /\ set_target_fields(m)
  /\ set_target_icon(m)
  /\ set_target_untouched
  /\ begin_save(1, "return", FALSE)
  /\ durable_history("set_target")
  /\ UNCHANGED <<running_total, opened_target, disk, tmp_file>>

\* lines 394-398: set_text_display_mode up to its call of _save_state
SetModeCall(mode) ==
  /\ alive
  /\ saver.pc = "idle"
  /\ IF mode \in valid_modes
     THEN /\ text_display_mode' = mode
          /\ begin_save(1, "refresh", FALSE)
     ELSE UNCHANGED <<text_display_mode, saver>>
  /\ durable_history("set_mode")
  /\ UNCHANGED <<now, alive, timerVars, sessionVars, targetVars, input_buffer,
                 icon, ticks, running_total, opened_target, disk, tmp_file>>

\* lines 400-403: the icon is refreshed once the save has returned
SetModeRefresh ==
  /\ alive
  /\ saver.pc = "refresh"
  /\ icon' = rendered_icon(text_display_mode, get_elapsed_time, target_duration,
                           is_running)
  /\ saver' = [saver EXCEPT !.pc = "idle"]
  /\ UNCHANGED <<now, alive, timerVars, sessionVars, targetVars, uiVars, ticks,
                 disk, tmp_file, disk_faulty, advances, historyVars, raceVars>>

ClearCall ==
  /\ alive
  /\ saver.pc = "idle"
  /\ clear_memory
  /\ begin_save(1, "return", FALSE)
  /\ durable_history("clear")
  /\ UNCHANGED <<running_total, opened_target, disk, tmp_file>>

\* a step of _save_state changes the files and nothing in memory
save_frame ==
  UNCHANGED <<now, alive, timerVars, sessionVars, targetVars, uiVars, icon,
              ticks, advances, historyVars, raceVars>>

\* lines 344-354: open(tmp_path, "w") creates or truncates the temporary file;
\* any failure is caught on line 357 and _save_state returns
SaveOpen ==
  /\ alive
  /\ saver.pc = "open"
  /\ \E opened \in write_outcomes :
       IF opened
       THEN /\ open_tmp_file(partial_file)
            /\ saver' = [saver EXCEPT !.pc = "dump"]
            /\ UNCHANGED disk_faulty
       ELSE /\ UNCHANGED <<disk, tmp_file>>
            /\ save_returns(FALSE)
  /\ save_frame

\* line 355: json.dump writes the payload and the file is closed
SaveDump ==
  /\ alive
  /\ saver.pc = "dump"
  /\ \E dumped \in write_outcomes :
       IF dumped
       THEN /\ open_tmp_file(memory_doc)
            /\ saver' = [saver EXCEPT !.pc = "replace"]
            /\ UNCHANGED disk_faulty
       ELSE /\ UNCHANGED <<disk, tmp_file>>
            /\ save_returns(FALSE)
  /\ save_frame

\* line 356: os.replace(tmp_path, data_path), in one step of the file system
SaveReplace ==
  /\ alive
  /\ saver.pc = "replace"
  /\ \E replaced \in write_outcomes :
       IF replaced
       THEN /\ disk' = tmp_file
            /\ tmp_file' = missing_doc
            /\ save_returns(TRUE)
       ELSE /\ UNCHANGED <<disk, tmp_file>>
            /\ save_returns(FALSE)
  /\ save_frame

\* the process is killed inside an operation that saves: its memory and its
\* threads are gone, the files stay as they are
Crash ==
  /\ alive
  /\ saver.pc # "idle"
  /\ alive' = FALSE
  /\ start_time' = None
  /\ is_running' = FALSE
  /\ is_paused' = FALSE
  /\ paused_elapsed' = 0
  /\ sessions' = default_sessions
  /\ session_counter' = 0
  /\ current_session_start' = None
  /\ current_session_target_minutes' = None
  /\ target_duration' = timedelta_minutes(DefaultTargetMinutes)
  /\ recent_targets_minutes' = default_recent
  /\ text_display_mode' = default_mode
  /\ input_buffer' = <<>>
  /\ icon' = no_image
  /\ ticks' = no_threads
  /\ saver' = saver_idle
  /\ last_op' = "crash"
  /\ last_from' = RunMode
  /\ running_total' = 0
  /\ opened_target' = None
  /\ UNCHANGED <<now, disk, tmp_file, disk_faulty, advances, raceVars>>

\* a new process: __init__, then _load_state of the durable file
Relaunch ==
  /\ ~alive
  /\ alive' = TRUE
  /\ start_time' = None
  /\ is_running' = FALSE
  /\ is_paused' = FALSE
  /\ paused_elapsed' = 0
  /\ sessions' = load_sessions(disk)
  /\ session_counter' = load_counter(disk)
  /\ current_session_start' = None
  /\ current_session_target_minutes' = None
  /\ target_duration' = load_target(disk)
  /\ recent_targets_minutes' = load_recent(disk)
  /\ text_display_mode' = load_mode(disk)
  /\ input_buffer' = <<>>
  /\ icon' = create_icon(Str(total_minutes(load_target(disk))), red_color, 0,
                         load_target(disk), FALSE)
  /\ ticks' = no_threads
  /\ saver' = saver_idle
  /\ last_op' = "launch"
  /\ last_from' = "Idle"
  /\ running_total' = 0
  /\ opened_target' = None
  /\ UNCHANGED <<now, disk, tmp_file, disk_faulty, advances, raceVars>>

InitDurable ==
  /\ \E d \in DurableDocs : Construct(d)
  /\ History0
  /\ disk_faulty \in BOOLEAN

NextDurable ==
  \/ DurableStart
  \/ DurablePause
  \/ ResetCall
  \/ QuitCall
  \/ QuitExit
  \/ \E m \in DurableTargets : SetTargetCall(m)
  \/ \E mode \in TimerModes : SetModeCall(mode)
  \/ SetModeRefresh
  \/ ClearCall
  \/ SaveOpen
  \/ SaveDump
  \/ SaveReplace
  \/ Crash
  \/ Relaunch
  \/ \E d \in DurableClockSteps : AdvanceClock(d)

SpecDurable == InitDurable /\ [][NextDurable]_vars

\* -------------------------------------------------------------- input runs

\* The Set Target submenu: the digits typed into _input_buffer, and Apply.

\* the digits typed in the input runs (the menu offers 0..9)
InputDigits == {0, 3}

\* int(s) of a string of decimal digits
RECURSIVE int_of(_)
int_of(buf) ==
  IF buf = <<>> THEN 0
  ELSE int_of(SubSeq(buf, 1, Len(buf) - 1)) * 10 + buf[Len(buf)]

\* lines 522-530: the buffer after digit d is typed
append_digit_leading_zero(buf, d) ==
  IF Len(buf) <= 1 THEN Append(buf, d) ELSE buf
append_digit(buf, d) ==
  IF Len(buf) = 0 THEN (IF d = 0 THEN buf ELSE <<d>>)
  ELSE IF Len(buf) = 1 THEN Append(buf, d)
  ELSE buf

\* line 534: self._input_buffer[:-1]
backspace_digit(buf) ==
  IF buf = <<>> THEN <<>> ELSE SubSeq(buf, 1, Len(buf) - 1)

\* How the call of set_target_minutes on line 547 can end: it returns, or one
\* of the calls it makes into the imaging library (line 494, made only when the
\* timer is not running) or into the tray (line 498) raises.
set_target_outcomes ==
  IF is_running THEN {"done", "menu_raised"}
  ELSE {"done", "icon_raised", "menu_raised"}

\* lines 549-550: the buffer once _apply_input is left
buffer_after_apply_unless_raised(outcome) ==
  IF outcome = "done" THEN <<>> ELSE input_buffer
buffer_after_apply(outcome) == <<>>

input_frame ==
  UNCHANGED <<now, alive, timerVars, sessionVars, targetVars, text_display_mode,
              icon, disk, ticks, running_total, opened_target>>

AppendDigit(d) ==
  /\ alive
  /\ input_buffer' = append_digit(input_buffer, d)
  /\ Invoked("digit")
  /\ input_frame

Backspace ==
  /\ alive
  /\ input_buffer' = backspace_digit(input_buffer)
  /\ Invoked("backspace")
  /\ input_frame

ClearInput ==
  /\ alive
  /\ input_buffer' = <<>>
  /\ Invoked("clear_input")
  /\ input_frame

CancelInput ==
  /\ alive
  /\ input_buffer' = <<>>
  /\ Invoked("cancel_input")
  /\ input_frame

\* _apply_input
ApplyInput ==
  /\ alive
  /\ Invoked("apply")
  /\ IF input_buffer = <<>>
     THEN /\ UNCHANGED input_buffer
          /\ input_frame
     ELSE \E outcome \in set_target_outcomes :
            LET value == clamp_minutes(int_of(input_buffer))
            IN /\ set_target_fields(value)
               /\ IF outcome = "icon_raised"
                  THEN UNCHANGED <<icon, disk>>
                  ELSE /\ set_target_icon(value)
                       /\ \E written \in write_outcomes :
                            disk' = save_state(written, disk, sessions,
                                               recent_targets_minutes',
                                               target_duration',
                                               text_display_mode)
               /\ input_buffer' = buffer_after_apply(outcome)
               /\ UNCHANGED <<now, alive, timerVars, sessionVars,
                              text_display_mode, ticks, running_total,
                              opened_target>>

NextInput ==
  \/ \E d \in InputDigits : AppendDigit(d)
  \/ Backspace
  \/ ClearInput
  \/ CancelInput
  \/ ApplyInput
  \/ Start
  \/ Pause

SpecInput == Init /\ [][NextInput]_vars

\* ------------------------------------------------------------- render runs

\* create_icon is a function of the elapsed time, the target and the running
\* flag it reads. The runs below start from a paused engine with any of a set
\* of banked times and targets, and render by Pause, by the tick and by a
\* change of the display mode.

\* the seconds banked when the render runs begin
RenderElapsed ==
  {0, 9, 10, 25, 49, 50, 59, 60, 65, 110, 120, 125, 180, 415, 420, 470, 719,
   720, 840}
\* the target, in minutes, of the render runs
RenderTargets == {1, 12}
\* the seconds banked by the Pause the reset runs start from
ResetBanked == {0, 7}
\* the minutes, the modes and the clock steps of the control runs
ControlTargets == {0, 240}
ControlModes == {"none", "minutes_to_target"}
ControlClockSteps == {5}
\* the steps the clock can take in the render runs
RenderClockSteps == {10, 60}
\* the modes handed to set_text_display_mode in the render runs
RenderModes == valid_modes \cup {"bogus"}

\* The engine after set_target_minutes(m), start_timer at instant 0 and
\* pause_timer at instant e, its tick thread ended.
PausedAt(e, m) ==
  /\ alive = TRUE
  /\ start_time = None
  /\ is_running = FALSE
  /\ is_paused = TRUE
  /\ paused_elapsed = e
  /\ sessions = default_sessions
  /\ session_counter = 1
  /\ current_session_start = 0
  /\ current_session_target_minutes = m
  /\ target_duration = timedelta_minutes(m)
  /\ recent_targets_minutes = mru_insert(default_recent, m)
  /\ text_display_mode = default_mode
  /\ input_buffer = <<>>
  /\ icon = rendered_icon(default_mode, e, timedelta_minutes(m), FALSE)
  /\ ticks = no_threads
  /\ disk = save_payload(default_sessions, mru_insert(default_recent, m),
                         timedelta_minutes(m), default_mode)
  /\ disk_faulty = FALSE
  /\ now = e
  /\ advances = 0
  /\ last_op = "pause"
  /\ last_from = "Running"
  /\ running_total = e
  /\ opened_target = m
  /\ ctl = ctl_idle
  /\ op_begun = 0
  /\ op_done = 0
  /\ last_snap = no_snap
  /\ tick_crashed = FALSE
  /\ saver = saver_idle
  /\ tmp_file = missing_doc

InitRender == \E e \in RenderElapsed, m \in RenderTargets : PausedAt(e, m)

NextRender ==
  \/ Start
  \/ Pause
  \/ Tick
  \/ \E mode \in RenderModes : SetTextDisplayMode(mode)
  \/ \E d \in RenderClockSteps : AdvanceClock(d)

SpecRender == InitRender /\ [][NextRender]_vars

\* ------------------------------------------------------------------ claims

IsPrefix(s, t) == Len(s) <= Len(t) /\ SubSeq(t, 1, Len(s)) = s
LastRecord == sessions[Len(sessions)]

\* "HH:MM:SS" read back as seconds, when its fields are in range
hms_seconds(h) == h[1] * SecondsPerHour + h[2] * SecondsPerMinute + h[3]
hms_well_formed(h) ==
  h[1] >= 0 /\ h[2] \in 0..(SecondsPerMinute - 1)
  /\ h[3] \in 0..(SecondsPerMinute - 1)

\* C1: the elapsed time read right after a Pause equals the elapsed time read
\* right before it, at the same clock instant: Pause banks the open interval
\* once and loses nothing.
C1_PauseIsLossless ==
  [][Pause => (now' = now /\ get_elapsed_time' = get_elapsed_time)]_vars

\* a second Pause, after a resume, with both intervals banked
C1_Witness ==
  /\ last_op = "pause"
  /\ last_from = "Running"
  /\ paused_elapsed = 605
  /\ now = 605

\* The elapsed times of the engine before and after the operation last_snap
\* describes, as read by a caller whose clock read was t (None: no clock read).
snapshot_elapsed(snap, t) ==
  IF snap[2] = None THEN {snap[1]}
  ELSE IF t = None THEN {}
  ELSE {snap[1] + (t - snap[2])}

\* the call of get_elapsed_time on line 205 by tk has returned, and exactly one
\* operation of the control context, a Pause now completed, ran during it
read_raced_one_pause(tk) ==
  /\ tk.pc = "text"
  /\ tk.b1 = tk.b0 + 1
  /\ last_snap.n = tk.b1
  /\ last_snap.kind = "pause"
  /\ op_done = tk.b1

\* C2: a tick thread that reads the elapsed time while the control context
\* executes Pause obtains the elapsed time of the state before the Pause or of
\* the state after it, whatever the interleaving of the field accesses; it
\* never counts the open interval twice.
C2_TickReadBeforeOrAfterPause ==
  \A tk \in BagToSet(ticks) :
    read_raced_one_pause(tk) =>
      tk.elapsed \in snapshot_elapsed(last_snap.pre, tk.t)
                       \cup snapshot_elapsed(last_snap.post, tk.t)

\* C3: Reset, from any run mode, leaves the engine Idle with nothing banked.
C3_ResetLeavesIdle ==
  last_op = "reset" =>
    /\ RunMode = "Idle"
    /\ ~is_running
    /\ ~is_paused
    /\ start_time = None
    /\ paused_elapsed = 0

\* a Reset issued while Paused with ten minutes banked
C3_Witness ==
  /\ last_op = "reset"
  /\ last_from = "Paused"
  /\ sessions # <<>>
  /\ LastRecord.elapsed_hms = <<0, 10, 0>>

\* C4: Reset and Quit append exactly one record when a session is open and the
\* elapsed time is positive, and none otherwise; the record carries the elapsed
\* time of the call and the target of the Start that opened the session.
C4_FinalizeAppendsOne ==
  [][(Reset \/ Quit) =>
       IF current_session_start # None /\ get_elapsed_time > 0
       THEN /\ Len(sessions') = Len(sessions) + 1
            /\ IsPrefix(sessions, sessions')
            /\ hms_well_formed(sessions'[Len(sessions')].elapsed_hms)
            /\ hms_seconds(sessions'[Len(sessions')].elapsed_hms)
                 = get_elapsed_time
            /\ sessions'[Len(sessions')].target_minutes = opened_target
       ELSE sessions' = sessions]_vars

\* a record finalized after SetTarget changed the target mid-session
C4_Witness ==
  /\ last_op \in {"reset", "quit"}
  /\ sessions # <<>>
  /\ LastRecord.target_minutes = DefaultTargetMinutes
  /\ total_minutes(target_duration) = 12
  /\ LastRecord.elapsed_hms = <<0, 10, 5>>

\* C5: the elapsed time is the time spent Running since the last Reset; time
\* spent Paused is never counted.
C5_OnlyRunningTimeCounts == alive => get_elapsed_time = running_total

\* ten minutes running, five seconds paused, resumed and paused again
C5_Witness ==
  /\ last_op = "pause"
  /\ last_from = "Running"
  /\ current_session_start = 0
  /\ now = 605
  /\ paused_elapsed = 600
  /\ running_total = 600

NoDuplicates(s) == \A i, j \in 1..Len(s) : s[i] = s[j] => i = j
Clamped(m) == IF m < 1 THEN 1 ELSE IF m > 99 THEN 99 ELSE m

\* C6: after SetTarget(m), from any state the program can reach, a loaded file
\* included, the target is m clamped to 1..99 and the recent list has that
\* value in front, has no value twice and has at most five entries.
C6_SetTargetRecentList ==
  [][\A m \in TargetInputs :
       SetTarget(m) =>
         /\ total_minutes(target_duration') = Clamped(m)
         /\ recent_targets_minutes' # <<>>
         /\ recent_targets_minutes'[1] = Clamped(m)
         /\ NoDuplicates(recent_targets_minutes')
         /\ Len(recent_targets_minutes') <= 5]_vars

\* C7: SetTarget is accepted in every run mode and leaves the run mode, the
\* start time, the banked time, the open session, the counter and the log alone.
C7_SetTargetFrame ==
  [][(\E m \in TimerTargets : SetTarget(m)) =>
       UNCHANGED <<timerVars, sessionVars>>]_vars

\* SetTarget while Running, with the session's captured target left behind
C7_Witness ==
  /\ last_op = "set_target"
  /\ last_from = "Running"
  /\ is_running
  /\ total_minutes(target_duration) = 12
  /\ current_session_target_minutes = DefaultTargetMinutes
  /\ get_elapsed_time = 600

\* C8: Pause while Idle or Paused, and Start while Running, change nothing.
C8_IllegalTransitionsIgnored ==
  [][((Pause /\ RunMode # "Running") \/ (Start /\ RunMode = "Running")) =>
       UNCHANGED <<timerVars, sessionVars, targetVars, uiVars, icon, disk,
                   ticks>>]_vars

\* a Start issued while Running with an interval open
C8_Witness ==
  /\ last_op = "start"
  /\ last_from = "Running"
  /\ is_running
  /\ now - start_time = 600

\* C9: every Start from Idle with nothing banked opens a session (counter up by
\* one, start time and target captured); every Start from Paused resumes and
\* leaves the session alone.
C9_StartOpensSession ==
  [][Start =>
       /\ (RunMode = "Idle" /\ paused_elapsed = 0) =>
            /\ session_counter' = session_counter + 1
            /\ current_session_start' = now
            /\ current_session_target_minutes' =
                 total_minutes(target_duration)
       /\ RunMode = "Paused" =>
            UNCHANGED <<session_counter, current_session_start,
                        current_session_target_minutes>>]_vars

\* C10 as stated: every step keeps the log as a prefix, and only the
\* finalization of Reset and Quit changes it.
C10_LogAppendOnly ==
  [][/\ IsPrefix(sessions, sessions')
     /\ sessions' # sessions => (Reset \/ Quit)]_vars

\* C10 amended: every operation but ClearStatistics keeps the log as a prefix;
\* ClearStatistics empties it; only Reset, Quit and ClearStatistics change it.
C10_LogAppendOnlyButClear ==
  [][/\ ~ClearStatistics => IsPrefix(sessions, sessions')
     /\ ClearStatistics => sessions' = <<>>
     /\ sessions' # sessions => (Reset \/ Quit \/ ClearStatistics)]_vars

\* the log has grown twice
C10_Witness ==
  /\ Len(sessions) = 2
  /\ sessions[1].id = 1
  /\ sessions[2].id = 2
  /\ last_op = "reset"

ids_increasing(log) ==
  \A i, j \in 1..Len(log) : i < j => log[i].id < log[j].id

\* C11: the ids of the records of the session log are strictly increasing in
\* log order, in memory and in the durable file, whatever Start, Pause, Reset,
\* ClearStatistics, Quit, a crash and a reload did; a new process resumes its
\* counter at the largest persisted id, so the next id is above all of them.
C11_IdsStrictlyIncreasing ==
  /\ ids_increasing(sessions)
  /\ doc_readable(disk) /\ disk.sessions.ok => ids_increasing(disk.sessions.v)
  /\ last_op = "launch" =>
       \A i \in 1..Len(sessions) : sessions[i].id < session_counter + 1

\* a process started on a file that holds two records
C11_Witness ==
  /\ last_op = "launch"
  /\ Len(sessions) = 2
  /\ sessions[1].id = 1
  /\ sessions[2].id = 2
  /\ session_counter = 2

\* the control context has left _save_state for good in this operation
saves_returned == alive /\ saver.pc \in {"idle", "refresh", "exit"}

\* C12: once an operation that changes the document (a finalizing Reset or
\* Quit, SetTarget, a display-mode change, ClearStatistics) has made its saves
\* and the last of them reached the durable file, the durable file holds exactly
\* the sessions, recent targets, target minutes and display mode of the memory;
\* this stays so until the next such operation.
C12_DurableEqualsMemory ==
  saves_returned /\ saver.wrote =>
    disk = save_payload(sessions, recent_targets_minutes, target_duration,
                        text_display_mode)

\* a display-mode change saved after a session was finalized and saved
C12_Witness ==
  /\ saves_returned
  /\ saver.wrote
  /\ last_op = "set_mode"
  /\ text_display_mode = "none"
  /\ Len(sessions) = 1
  /\ disk.mode.v = "none"
  /\ Len(disk.sessions.v) = 1

\* C13: whatever step is taken, a failing write and the death of the process
\* included, the durable file either stays as it was or becomes the complete
\* document of the memory, and it becomes so only by the replace step of a
\* save; what is half written is the temporary file.
C13_SaveIsAtomic ==
  [][/\ disk' # disk =>
          /\ SaveReplace
          /\ disk' = save_payload(sessions, recent_targets_minutes,
                                  target_duration, text_display_mode)
     /\ disk'.kind # "partial"
     /\ Crash => disk' = disk]_vars

\* the process died with the temporary file half written, after an earlier
\* save had made one record durable
C13_Witness ==
  /\ last_op = "crash"
  /\ ~alive
  /\ tmp_file = partial_file
  /\ doc_readable(disk)
  /\ Len(disk.sessions.v) = 1

\* C14: in every state of a live process, the document _save_state would write,
\* loaded by _load_state into a fresh engine, gives back the same sessions,
\* recent targets, target and display mode.
C14_SaveThenLoadIsIdentity ==
  alive =>
    /\ load_sessions(memory_doc) = sessions
    /\ load_recent(memory_doc) = recent_targets_minutes
    /\ load_target(memory_doc) = target_duration
    /\ load_mode(memory_doc) = text_display_mode

\* a process started on a file in which all four fields differ from the defaults
C14_Witness ==
  /\ last_op = "launch"
  /\ Len(sessions) = 1
  /\ recent_targets_minutes = <<1, 30>>
  /\ target_duration = timedelta_minutes(1)
  /\ text_display_mode = "none"
  /\ disk = memory_doc

\* a file whose target or recent targets lie outside 1..99
out_of_range(d) ==
  /\ doc_readable(d)
  /\ \/ d.target.ok /\ d.target.v \notin MinTargetMinutes..MaxTargetMinutes
     \/ /\ d.recent.ok
        /\ \E i \in 1..Len(d.recent.v) :
             d.recent.v[i] \notin MinTargetMinutes..MaxTargetMinutes

\* C15: a process started on a file that is missing, malformed or holds
\* out-of-range values is alive and holds the default document: no sessions,
\* recent targets [30], target 30 minutes, display mode minutes_elapsed.
C15_LoadFallsBackToDefaults ==
  (last_op = "none" /\ (~doc_readable(disk) \/ out_of_range(disk))) =>
    /\ alive
    /\ sessions = default_sessions
    /\ recent_targets_minutes = default_recent
    /\ target_duration = timedelta_minutes(DefaultTargetMinutes)
    /\ text_display_mode = default_mode

\* the record the running Quit finalized is in the durable file
quit_record_durable ==
  /\ doc_readable(disk)
  /\ disk.sessions.ok
  /\ sessions # <<>>
  /\ list_contains(disk.sessions.v, LastRecord)

buffer_well_formed ==
  /\ Len(input_buffer) \in 0..2
  /\ \A i \in 1..Len(input_buffer) : input_buffer[i] \in 0..9
  /\ input_buffer # <<>> =>
       /\ input_buffer[1] # 0
       /\ int_of(input_buffer) \in MinTargetMinutes..MaxTargetMinutes

\* C17: the input buffer always holds no, one or two decimal digits and never
\* starts with 0, so a non-empty buffer denotes 1..99; a digit typed into a
\* full buffer, or 0 typed into an empty one, changes nothing, and any other
\* digit is appended; Backspace removes the last digit, if any.
C17_InputBuffer ==
  /\ []buffer_well_formed
  /\ [][\A d \in InputDigits :
          AppendDigit(d) =>
            input_buffer' =
              IF Len(input_buffer) = 2 \/ (input_buffer = <<>> /\ d = 0)
              THEN input_buffer
              ELSE input_buffer \o <<d>>]_vars
  /\ [][Backspace =>
          /\ input_buffer = <<>> => input_buffer' = <<>>
          /\ input_buffer # <<>> =>
               input_buffer' \o <<input_buffer[Len(input_buffer)]>>
                 = input_buffer]_vars

\* "30" typed after a rejected 0 and a Backspace
C17_Witness ==
  /\ last_op = "digit"
  /\ input_buffer = <<3, 0>>
  /\ total_minutes(target_duration) = 33

\* C18: Apply with a non-empty buffer sets the target to the buffer's value
\* clamped to 1..99 and puts it in front of the recent list, as SetTarget does,
\* and leaves the buffer empty, also when set_target_minutes raises; Apply with
\* an empty buffer changes neither the target, the recent list nor the buffer.
C18_ApplySetsTargetAndClears ==
  [][ApplyInput =>
       /\ input_buffer # <<>> =>
            /\ total_minutes(target_duration') = Clamped(int_of(input_buffer))
            /\ recent_targets_minutes' =
                 mru_insert(recent_targets_minutes,
                            Clamped(int_of(input_buffer)))
            /\ recent_targets_minutes'[1] = Clamped(int_of(input_buffer))
            /\ input_buffer' = <<>>
       /\ input_buffer = <<>> =>
            UNCHANGED <<target_duration, recent_targets_minutes,
                        input_buffer>>]_vars

\* an Apply of "33" whose set_target_minutes raised before it saved
C18_Witness ==
  /\ last_op = "apply"
  /\ input_buffer = <<>>
  /\ total_minutes(target_duration) = 33
  /\ recent_targets_minutes[1] = 33
  /\ disk.target.v # 33

\* the palette, bottom band first, and what a drawn band shows
palette(i) == hex_to_rgba_tuple(band_colors_hex[i + 1])
rgb(c) == <<c[1], c[2], c[3]>>
completed_bands(e, target) == (6 * e) \div target
shows_palette(band, i) == rgb(band) = rgb(palette(i)) /\ band[4] > 0

\* a step that renders the bands from the elapsed time of its end state: a
\* Pause of a running timer, a pass of the tick loop, a change of display mode
renders_bands ==
  \/ Pause /\ is_running
  \/ Tick /\ is_running /\ start_time # None
  \/ \E mode \in valid_modes : SetTextDisplayMode(mode)

\* among the banked times and targets of the render runs, the filled bands of
\* Phase A are a bottom prefix and only grow with the elapsed time
fill_grows ==
  \A m \in RenderTargets, run \in BOOLEAN, e1 \in RenderElapsed,
     e2 \in RenderElapsed :
    LET t == timedelta_minutes(m)
        b1 == band_list(e1, t, run)
        b2 == band_list(e2, t, run)
    IN (e1 <= e2 /\ completed_bands(e2, t) <= 5) =>
         /\ \A i \in 0..5 : shows_palette(b1[i + 1], i) => shows_palette(b2[i + 1], i)
         /\ \A i \in 1..5 : shows_palette(b2[i + 1], i) => shows_palette(b2[i], i - 1)

\* C19: while floor(elapsed / (target/6)) <= 5, a rendered band i shows
\* palette[i] exactly when elapsed >= i * (target/6), at full alpha when
\* running and half alpha when not, and the placeholder otherwise: fully
\* transparent when running, grey at half alpha when not. The filled bands are
\* a bottom prefix that only grows with the elapsed time.
C19_PhaseAFill ==
  /\ [][renders_bands =>
          LET e == get_elapsed_time'
              t == target_duration'
              run == is_running'
          IN completed_bands(e, t) <= 5 =>
               \A i \in 0..5 :
                 IF 6 * e >= i * t
                 THEN icon'.bands[i + 1] =
                        rgb(palette(i)) \o <<IF run THEN 255 ELSE 128>>
                 ELSE IF run THEN icon'.bands[i + 1][4] = 0
                      ELSE icon'.bands[i + 1] = <<128, 128, 128, 128>>]_vars
  /\ []fill_grows

\* a tick drew three bands of a running timer, the bands above them transparent
C19_Witness ==
  /\ is_running
  /\ target_duration = timedelta_minutes(1)
  /\ get_elapsed_time = 25
  /\ icon.bands[1] = <<94, 70, 210, 255>>
  /\ icon.bands[3] = <<165, 38, 140, 255>>
  /\ icon.bands[4][4] = 0
  /\ icon.bands[6][4] = 0

\* C20: the rendering is in Phase B exactly when elapsed >= target; then, with
\* postSteps = completedBands - 6, loopIndex = postSteps div 6 and
\* positionInLoop = postSteps mod 6, a rendered band i <= positionInLoop shows
\* palette[loopIndex mod 6], and a band above it shows palette[i] in loop 0 and
\* palette[(loopIndex - 1) mod 6] in the later loops.
C20_PhaseBCycle ==
  [][renders_bands =>
       LET e == get_elapsed_time'
           t == target_duration'
           completed == completed_bands(e, t)
           postSteps == completed - 6
           loopIndex == postSteps \div 6
           positionInLoop == postSteps % 6
       IN /\ (completed >= 6) = (e >= t)
          /\ completed >= 6 =>
               \A i \in 0..5 :
                 rgb(icon'.bands[i + 1]) =
                   IF i <= positionInLoop THEN rgb(palette(loopIndex % 6))
                   ELSE IF loopIndex = 0 THEN rgb(palette(i))
                   ELSE rgb(palette((loopIndex - 1) % 6))]_vars

\* target 12 minutes, 14 minutes elapsed, drawn by a tick: bands 0 and 1 in
\* palette[0], bands 2 to 5 still in their own colours
C20_Witness ==
  /\ is_running
  /\ target_duration = timedelta_minutes(12)
  /\ get_elapsed_time = 840
  /\ icon.bands[1] = <<94, 70, 210, 255>>
  /\ icon.bands[2] = <<94, 70, 210, 255>>
  /\ icon.bands[3] = <<165, 38, 140, 255>>
  /\ icon.bands[4] = <<242, 38, 89, 255>>
  /\ icon.bands[5] = <<255, 102, 63, 255>>
  /\ icon.bands[6] = <<242, 204, 63, 255>>

\* -------------------------------------------------------------- reset runs

\* reset_timer against the tick thread, field by field. The control context is
\* the only writer of the timer fields, so the reads of its own call of
\* get_elapsed_time on line 245 are taken together.

\* what a step inside reset_timer leaves alone besides the fields it names
reset_frame ==
  UNCHANGED <<now, alive, session_counter, targetVars, uiVars, disk_faulty,
              advances, saveVars, ticks, last_op, last_from, op_begun,
              tick_crashed>>

\* line 245: reset_timer is called and reads the elapsed time
ResetRead ==
  /\ alive
  /\ ctl.pc = "idle"
  /\ op_begun < MaxOps
  /\ op_begun' = op_begun + 1
  /\ last_op' = "reset"
  /\ last_from' = RunMode
  /\ ctl' = [pc |-> "r_test", pe |-> get_elapsed_time, t |-> now,
             st |-> start_time]
  /\ last_snap' = [n |-> op_begun + 1, kind |-> "reset",
                   pre |-> <<paused_elapsed, start_time>>,
                   post |-> <<paused_elapsed, start_time>>]
  /\ UNCHANGED <<timerVars, icon, ticks, op_done, tick_crashed, otherVars>>

\* lines 246-247 and 286-288: the record is appended and the session closed
ResetFinalize ==
  /\ ctl.pc = "r_test"
  /\ finalize_session(ctl.pe)
  /\ ctl' = [ctl EXCEPT !.pc = IF should_finalize(ctl.pe) THEN "r_drop"
                                ELSE "r_stop"]
  /\ opened_target' =
       IF current_session_start' = None THEN None ELSE opened_target
  /\ UNCHANGED <<timerVars, icon, disk, running_total, op_done, last_snap>>
  /\ reset_frame

\* lines 289-291: _append_session_record zeroes paused_elapsed and saves
ResetDrop ==
  /\ ctl.pc = "r_drop"
  /\ paused_elapsed' = 0
  /\ \E written \in write_outcomes :
       disk' = save_state(written, disk, sessions, recent_targets_minutes,
                          target_duration, text_display_mode)
  /\ ctl' = [ctl EXCEPT !.pc = "r_stop"]
  /\ UNCHANGED <<start_time, is_running, is_paused, sessions,
                 current_session_start, current_session_target_minutes, icon,
                 running_total, opened_target, op_done, last_snap>>
  /\ reset_frame

\* line 250: self.is_running = False
ResetStop ==
  /\ ctl.pc = "r_stop"
  /\ is_running' = FALSE
  /\ ctl' = [ctl EXCEPT !.pc = "r_flag"]
  /\ UNCHANGED <<start_time, is_paused, paused_elapsed, sessions,
                 current_session_start, current_session_target_minutes, icon,
                 disk, running_total, opened_target, op_done, last_snap>>
  /\ reset_frame

\* line 251: self.is_paused = False
ResetFlag ==
  /\ ctl.pc = "r_flag"
  /\ is_paused' = FALSE
  /\ ctl' = [ctl EXCEPT !.pc = "r_clear"]
  /\ UNCHANGED <<start_time, is_running, paused_elapsed, sessions,
                 current_session_start, current_session_target_minutes, icon,
                 disk, running_total, opened_target, op_done, last_snap>>
  /\ reset_frame

\* line 252: self.start_time = None
ResetClear ==
  /\ ctl.pc = "r_clear"
  /\ start_time' = None
  /\ ctl' = [ctl EXCEPT !.pc = "r_zero"]
  /\ UNCHANGED <<is_running, is_paused, paused_elapsed, sessions,
                 current_session_start, current_session_target_minutes, icon,
                 disk, running_total, opened_target, op_done, last_snap>>
  /\ reset_frame

\* line 253: self.paused_elapsed = timedelta(0)
ResetZero ==
  /\ ctl.pc = "r_zero"
  /\ paused_elapsed' = 0
  /\ ctl' = [ctl EXCEPT !.pc = "r_icon"]
  /\ UNCHANGED <<start_time, is_running, is_paused, sessions,
                 current_session_start, current_session_target_minutes, icon,
                 disk, running_total, opened_target, op_done, last_snap>>
  /\ reset_frame

\* lines 256-263: the reset icon is handed to the tray, the state is saved and
\* reset_timer returns
ResetIcon ==
  /\ ctl.pc = "r_icon"
  /\ icon' = create_icon(Str(total_minutes(target_duration)), reset_color,
                         get_elapsed_time, target_duration, is_running)
  /\ \E written \in write_outcomes :
       disk' = save_state(written, disk, sessions, recent_targets_minutes,
                          target_duration, text_display_mode)
  /\ ctl' = ctl_idle
  /\ op_done' = op_done + 1
  /\ last_snap' = [last_snap EXCEPT !.post = <<paused_elapsed, start_time>>]
  /\ running_total' = 0
  /\ UNCHANGED <<timerVars, sessions, current_session_start,
                 current_session_target_minutes, opened_target>>
  /\ reset_frame

\* The engine was paused with ResetBanked seconds banked; it is resumed and
\* reset while its tick thread runs.
InitReset == \E e \in ResetBanked : PausedAt(e, DefaultTargetMinutes)

NextReset ==
  \/ RaceStart
  \/ ResetRead
  \/ ResetFinalize
  \/ ResetDrop
  \/ ResetStop
  \/ ResetFlag
  \/ ResetClear
  \/ ResetZero
  \/ ResetIcon
  \/ TickWhile
  \/ TickIf
  \/ GetStart
  \/ GetRunning
  \/ GetNow
  \/ GetStartAgain
  \/ GetBanked
  \/ GetPaused
  \/ TickText
  \/ TickBands
  \/ TickDim
  \/ TickPublish
  \/ \E d \in RaceClockSteps : AdvanceClock(d)

SpecReset == InitReset /\ [][NextReset]_vars

\* ------------------------------------------------------------ control runs

\* Every control of the menu, one whole operation at a time, with targets
\* outside 1..99 among the inputs.
NextControl ==
  \/ Start
  \/ Pause
  \/ Reset
  \/ \E m \in ControlTargets : SetTarget(m)
  \/ \E mode \in ControlModes : SetTextDisplayMode(mode)
  \/ ClearStatistics
  \/ Tick
  \/ \E d \in ControlClockSteps : AdvanceClock(d)

SpecControl == Init /\ [][NextControl]_vars

\* C21: the text of a rendered icon, from the display mode and the whole
\* minutes elapsed and targeted (delta = elapsed minutes - target minutes):
\* nothing under none; the elapsed minutes under minutes_elapsed; the remaining
\* minutes under minutes_to_target, blank from the target on; the minutes beyond
\* the target under minutes_past_target, blank until it is exceeded; |delta|
\* under minutes_from_target, for every delta.
C21_OverlayText ==
  [][renders_bands =>
       LET elapsedMinutes == get_elapsed_time' \div 60
           targetMinutes == target_duration' \div 60
           delta == elapsedMinutes - targetMinutes
           mode == text_display_mode'
       IN icon'.text =
            CASE mode = "none" -> <<>>
              [] mode = "minutes_elapsed" -> Str(elapsedMinutes)
              [] mode = "minutes_to_target" ->
                   IF delta < 0 THEN Str(-delta) ELSE <<>>
              [] mode = "minutes_past_target" ->
                   IF delta > 0 THEN Str(delta) ELSE <<>>
              [] mode = "minutes_from_target" -> Str(Abs(delta))]_vars

\* C22: after every whole control operation the engine is running exactly when
\* start_time is set, it is never both running and paused, and the target is a
\* whole number of minutes from 1 to 99.
C22_RunModeAndTarget ==
  /\ is_running <=> start_time # None
  /\ ~(is_running /\ is_paused)
  /\ target_duration % SecondsPerMinute = 0
  /\ total_minutes(target_duration) \in MinTargetMinutes..MaxTargetMinutes

\* a Pause of the running timer has completed after a target above 99 was asked
C22_Witness ==
  /\ last_op = "pause"
  /\ last_from = "Running"
  /\ is_paused
  /\ start_time = None
  /\ total_minutes(target_duration) = MaxTargetMinutes

\* the call of get_elapsed_time on line 205 by tk has returned, and exactly one
\* operation of the control context ran during it: a Reset, now completed, of
\* a running timer with banked time
read_raced_one_reset(tk) ==
  /\ tk.pc = "text"
  /\ tk.b1 = tk.b0 + 1
  /\ last_snap.n = tk.b1
  /\ last_snap.kind = "reset"
  /\ op_done = tk.b1
  /\ last_snap.pre[1] > 0
  /\ last_snap.pre[2] # None

\* C23: a tick thread that reads the elapsed time while the control context
\* executes Reset on a running timer with banked time obtains the elapsed time
\* of the state before the Reset (banked plus open interval) or of the state
\* after it (zero), whatever the interleaving of the field accesses; it never
\* obtains the open interval alone.
C23_TickReadBeforeOrAfterReset ==
  \A tk \in BagToSet(ticks) :
    read_raced_one_reset(tk) =>
      tk.elapsed \in snapshot_elapsed(last_snap.pre, tk.t)
                       \cup snapshot_elapsed(last_snap.post, tk.t)

\* C24: at most one tick loop is alive at any time: the loop a Start spawned
\* has left before a later Start spawns the next one, a Pause and a Start
\* within one sleep of the loop included.
C24_AtMostOneTickLoop ==
  live_ticks <= 1

\* the last operation of the control context was a Pause of the running timer,
\* it has returned, and every tick thread has left its loop
pause_done_ticks_gone ==
  /\ ctl.pc = "idle"
  /\ last_snap.kind = "pause"
  /\ op_done = last_snap.n
  /\ ticks = no_threads

\* C25: once a Pause has completed and the tick loop has taken its last step,
\* the icon shown is the paused, dimmed one the Pause produced, whatever the
\* interleaving: no tick iteration publishes an image it computed while the
\* timer was running after the Pause published its own.
C25_PauseIconStays ==
  pause_done_ticks_gone =>
    icon = rendered_icon(text_display_mode, paused_elapsed, target_duration,
                         FALSE)

\* C26: a read of the elapsed time by a tick thread always returns a duration
\* that is not negative, whatever Pause does meanwhile: it never subtracts a
\* cleared start_time from the clock, so no tick thread dies of an error.
C26_TickReadWellDefined ==
  /\ ~tick_crashed
  /\ \A tk \in BagToSet(ticks) : tk.elapsed >= 0 /\ tk.bands_elapsed >= 0

====
